---- MODULE Spec2Model ----
(***************************************************************************)
(* Model of the tarteel reciter-matching code:                             *)
(*   lib/audio/python_processor.py   process_audio, calculate_similarity,  *)
(*                                   compare_segments, two_stage_matcher   *)
(*                                   and the command-line entry point      *)
(*   app/api/process-recitation/route.py   handler.do_POST (ranking)       *)
(*   app/api/new-reciter-py/route.py       handler.do_POST (registration)  *)
(*   lib/speaker_prediction/predictor.py   predict_from_base64             *)
(* Spec is the behaviour of these programs; SpecFunctions calls the        *)
(* extractors, segment_audio, compare_segments and the vector assembly of  *)
(* process_audio on their own, each on inputs drawn from a bounded set.    *)
(* SpecConcurrent runs register-reciter requests and runs of               *)
(* scripts/extract-features.py (process_reciters) side by side on one      *)
(* reciters table.                                                         *)
(*                                                                         *)
(* Scores are exact rationals held as integers in units of 1/One, so the   *)
(* weighted sums of the code are computed without rounding.  Vectors are   *)
(* two-dimensional integer vectors; a fingerprint of Euclidean length      *)
(* FpUnit stands for a unit-norm fingerprint.                              *)
(***************************************************************************)
EXTENDS Integers, Sequences, FiniteSets, TLC

VARIABLES
    entry,          \* program or function that runs (Programs, Functions)
    pc,             \* control position
    args,           \* parsed command line: [process, match]
    tempExists,     \* the temporary file of process_audio is on disk
    tempCreated,    \* process_audio has created its temporary file
    features,       \* value returned by process_audio (Null before)
    raised,         \* exception propagating out of the current call, or "none"
    stdout,         \* what the run printed on standard output
    stderr,         \* what the run printed on standard error
    exitCode,       \* exit status (Null while running)
    sameBundle,     \* --match payload holds the same bundle as sample1 and sample2
    vector1, vector2,       \* two_stage_matcher locals
    cosine_sim,
    seq_present,    \* both bundles carried the key sequence_features
    dtw,            \* outcome of the alignment inside calculate_similarity
    combined_sim,
    segments1, segments2,   \* the 'segments' fields as read by Stage 3
    segment_sim,
    final_sim,
    result,         \* dictionary returned by two_stage_matcher (Null before)
    trace,          \* fields read and functions invoked by two_stage_matcher
    reciters,       \* rows fetched from the reciters table
    idx,            \* loop position of the ranking loop
    matches,        \* the list built by the ranking loop
    response,       \* HTTP response of the handler (Null before)
    request,        \* parsed body of the HTTP request (Null before)
    effects,        \* effects performed so far on files, storage and the table
    callerTemp,     \* temporary file of the caller: "none" | "exists" | "deleted"
    storage,        \* the uploaded audio object is in the storage bucket
    existing_reciters,  \* rows selected by the register-reciter handler
    tableWrite,     \* write made to the reciters table (Null: none)
    input,          \* arguments of the function called on its own
    output,         \* value it returned (Null before)
    reciters_table, \* rows of the shared reciters table
    name_unique,    \* the table's schema rejects a second row of one name
    workers         \* the requests and script runs at work on the table

vars == <<entry, pc, args, tempExists, tempCreated, features, raised, stdout,
          stderr, exitCode, sameBundle, vector1, vector2, cosine_sim,
          seq_present, dtw, combined_sim, segments1, segments2, segment_sim,
          final_sim, result, trace, reciters, idx, matches, response,
          request, effects, callerTemp, storage, existing_reciters, tableWrite,
          input, output, reciters_table, name_unique, workers>>

cliVars   == <<args, stdout, stderr, exitCode>>
paVars    == <<tempExists, tempCreated, features>>
tsmVars   == <<sameBundle, vector1, vector2, cosine_sim, seq_present, dtw,
               combined_sim, segments1, segments2, segment_sim, final_sim,
               result, trace>>
rankVars  == <<reciters, idx, matches, response>>
regVars   == <<callerTemp, storage, existing_reciters, tableWrite>>
unitVars  == <<input, output>>
concVars  == <<reciters_table, name_unique, workers>>

----------------------------------------------------------------------------
(* Bounds of the model *)

MaxFrames   == 2    \* longest sequence matrix, in frames
MaxSegs     == 2    \* longest segment list
MaxReciters == 6    \* largest reciters table

----------------------------------------------------------------------------
(* Number representation *)

One    == 30000     \* the score 1.0
FpUnit == 10        \* integer length of a unit-norm fingerprint

Null    == <<>>             \* None / absent key
Some(x) == <<x>>
Val(o)  == o[1]

Abs(n) == IF n < 0 THEN -n ELSE n
Min(a, b) == IF a <= b THEN a ELSE b
Max(a, b) == IF a >= b THEN a ELSE b
MinOf(S)  == CHOOSE m \in S : \A n \in S : m <= n

\* a / b where the quotient is a whole number of units; any other use is an
\* error of the number representation and stops the evaluation
ExactDiv(a, b) == IF a % b = 0 THEN a \div b ELSE CHOOSE q \in {} : TRUE

Dot(u, v) == u[1] * v[1] + u[2] * v[2]

\* np.linalg.norm of a vector whose length is a whole number
Norm(v) == CHOOSE n \in 0..(Abs(v[1]) + Abs(v[2])) : n * n = Dot(v, v)

RECURSIVE SumSeq(_)
SumSeq(s) == IF s = <<>> THEN 0 ELSE Head(s) + SumSeq(Tail(s))

SeqsUpTo(S, n) == UNION {[1..k -> S] : k \in 0..n}

----------------------------------------------------------------------------
(* Inputs *)

\* fingerprints: three of unit norm, one of norm 1/2
Fingerprints == {<<10, 0>>, <<8, 6>>, <<-6, 8>>, <<5, 0>>}
IsUnit(v) == Dot(v, v) = FpUnit * FpUnit

\* sequence matrices, rows = channels, columns = frames; <<>> is a payload
\* value that is not a 2-D array
FrameVals == {0, 1, 3}
Matrices  == {<<>>} \cup {<<row>> : row \in SeqsUpTo(FrameVals, MaxFrames)}
SeqFields == {Null} \cup {Some(m) : m \in Matrices}

\* segment descriptors (non-zero vectors) and the 'segments' field
SegVecs   == {<<8, 6>>, <<-3, -4>>}
SegLists  == SeqsUpTo(SegVecs, MaxSegs)
SegFields == {Null} \cup {Some(l) : l \in SegLists}

----------------------------------------------------------------------------
(* calculate_similarity *)

\* array.shape[1] raises IndexError for an array that is not 2-D
Is2D(m)   == m # <<>>
Frames(m) == Len(m[1])

\* m[:, ::step]
Subsample(m, step) ==
    [c \in 1..Len(m) |->
        [t \in 1..((Frames(m) + step - 1) \div step) |-> m[c][(t - 1) * step + 1]]]

\* m.T : time becomes the leading axis
Transpose(m) == [t \in 1..Frames(m) |-> [c \in 1..Len(m) |-> m[c][t]]]

\* scipy.spatial.distance.euclidean of two frames
SqDist(f, g) == SumSeq([c \in 1..Len(f) |-> (f[c] - g[c]) * (f[c] - g[c])])
euclidean(f, g) == CHOOSE n \in 0..SqDist(f, g) : n * n = SqDist(f, g)

\* the table without the diagonal predecessor
RECURSIVE DtwCost_NoDiagonal(_, _, _, _)
DtwCost_NoDiagonal(x, y, i, j) ==
    LET dt == euclidean(x[i], y[j]) IN
    IF i = 1 /\ j = 1 THEN dt
    ELSE IF i = 1 THEN dt + DtwCost_NoDiagonal(x, y, 1, j - 1)
    ELSE IF j = 1 THEN dt + DtwCost_NoDiagonal(x, y, i - 1, 1)
    ELSE dt + MinOf({DtwCost_NoDiagonal(x, y, i - 1, j),
                     DtwCost_NoDiagonal(x, y, i, j - 1)})

\* the dynamic-programming table of the alignment: cost of the cheapest
\* warping path that ends by pairing frame i of x with frame j of y
RECURSIVE DtwCost(_, _, _, _)
DtwCost(x, y, i, j) ==
    LET dt == euclidean(x[i], y[j]) IN
    IF i = 1 /\ j = 1 THEN dt
    ELSE IF i = 1 THEN dt + DtwCost(x, y, 1, j - 1)
    ELSE IF j = 1 THEN dt + DtwCost(x, y, i - 1, 1)
    ELSE dt + MinOf({DtwCost(x, y, i - 1, j), DtwCost(x, y, i, j - 1),
                     DtwCost(x, y, i - 1, j - 1)})

\* fastdtw(x, y, dist=euclidean): the distance, or a raise when a series has
\* no frame or the frames differ in width
fastdtw_raises(x, y) ==
    \/ Len(x) = 0
    \/ Len(y) = 0
    \/ Len(x[1]) # Len(y[1])
fastdtw(x, y) == DtwCost(x, y, Len(x), Len(y))

DTW_SUBSAMPLE == 100    \* frames kept for the alignment
W_COSINE == 4           \* 0.4, in tenths
W_DTW    == 6           \* 0.6, in tenths

cosine(v1, v2) == ExactDiv(Dot(v1, v2) * One, FpUnit * FpUnit)

\* the try block of Stage 2: [raised, distance, max_len, dtw_sim]
Alignment(sequence1, sequence2) ==
    IF ~Is2D(sequence1) \/ ~Is2D(sequence2)
    THEN [raised |-> TRUE, distance |-> 0, max_len |-> 0, dtw_sim |-> 0]
    ELSE
    LET step == Max(1, Min(Frames(sequence1), Frames(sequence2)) \div DTW_SUBSAMPLE)
        seq1_subset == Transpose(Subsample(sequence1, step))
        seq2_subset == Transpose(Subsample(sequence2, step))
    IN  IF fastdtw_raises(seq1_subset, seq2_subset)
        THEN [raised |-> TRUE, distance |-> 0, max_len |-> 0, dtw_sim |-> 0]
        ELSE
        LET distance == fastdtw(seq1_subset, seq2_subset)
            max_len  == Max(Len(seq1_subset), Len(seq2_subset))
            normalized_dist ==
                One - ExactDiv(distance * One, max_len * Len(seq1_subset[1]))
        IN  [raised |-> FALSE, distance |-> distance, max_len |-> max_len,
             dtw_sim |-> Max(0, normalized_dist)]

NoAlignment == [raised |-> FALSE, distance |-> 0, max_len |-> 0, dtw_sim |-> 0]

\* sequence1, sequence2 are Null (None) or Some(matrix).  The value is
\* [value, aligned, dtw] with aligned in "skipped" | "ok" | "raised"
calculate_similarity(v1, v2, method, sequence1, sequence2) ==
    LET cos == cosine(v1, v2) IN
    IF method = "cosine" \/ sequence1 = Null \/ sequence2 = Null
    THEN [value |-> cos, aligned |-> "skipped", dtw |-> NoAlignment]
    ELSE IF method \in {"dtw", "combined"}
    THEN LET a == Alignment(Val(sequence1), Val(sequence2)) IN
         IF a.raised
         THEN [value |-> cos, aligned |-> "raised", dtw |-> a]
         ELSE IF method = "dtw"
         THEN [value |-> a.dtw_sim, aligned |-> "ok", dtw |-> a]
         ELSE [value |-> ExactDiv(W_COSINE * cos + W_DTW * a.dtw_sim, 10),
               aligned |-> "ok", dtw |-> a]
    ELSE [value |-> cos, aligned |-> "skipped", dtw |-> NoAlignment]

----------------------------------------------------------------------------
(* compare_segments *)

\* sim_matrix[i, j]
SegCos(ref_seg, q_seg) ==
    ExactDiv(Dot(ref_seg, q_seg) * One, Norm(ref_seg) * Norm(q_seg))

\* the inner loop: scan the reference indices from i on; [best_sim, best_idx]
RECURSIVE BestRef(_, _, _, _, _, _)
BestRef(reference, q_seg, used_indices, i, best_sim, best_idx) ==
    IF i > Len(reference) THEN [best_sim |-> best_sim, best_idx |-> best_idx]
    ELSE IF i \notin used_indices /\ SegCos(reference[i], q_seg) > best_sim
    THEN BestRef(reference, q_seg, used_indices, i + 1,
                 SegCos(reference[i], q_seg), i)
    ELSE BestRef(reference, q_seg, used_indices, i + 1, best_sim, best_idx)

\* the outer loop over the query, from j on; the list of chosen scores
\* (best_idx 0 stands for the code's -1: no reference index chosen)
RECURSIVE Greedy(_, _, _, _, _)
Greedy(reference, query, j, used_indices, similarities) ==
    IF j > Len(query) THEN similarities
    ELSE LET b == BestRef(reference, query[j], used_indices, 1, -One, 0) IN
         IF b.best_idx >= 1
         THEN Greedy(reference, query, j + 1, used_indices \cup {b.best_idx},
                     Append(similarities, b.best_sim))
         ELSE Greedy(reference, query, j + 1, used_indices, similarities)

compare_segments(segs1, segs2) ==
    IF segs1 = <<>> \/ segs2 = <<>> THEN 0
    ELSE LET reference == IF Len(segs1) >= Len(segs2) THEN segs1 ELSE segs2
             query     == IF Len(segs1) >= Len(segs2) THEN segs2 ELSE segs1
             similarities == Greedy(reference, query, 1, {}, <<>>)
         IN  IF similarities # <<>>
             THEN ExactDiv(SumSeq(similarities), Len(similarities))
             ELSE 0

\* a test for the presence of the key only
HasSegments_KeyOnly(field) == field # Null

\* truthiness of sample.get('segments'): absent, None and [] are all falsy
HasSegments(field) == field # Null /\ Val(field) # <<>>

----------------------------------------------------------------------------
(* Initial state *)

NoDtw == [aligned |-> "skipped", distance |-> 0, max_len |-> 0, dtw_sim |-> 0]

\* the programs of the repository that run on their own
Programs == {"cli", "process_recitation", "new_reciter", "predictor"}

\* the state in which program or function e starts
Local(e) ==
    /\ entry = e
    /\ pc = "start"
    /\ args = [process |-> "none", match |-> "none"]
    /\ tempExists = FALSE
    /\ tempCreated = FALSE
    /\ features = Null
    /\ raised = "none"
    /\ stdout = <<>>
    /\ stderr = <<>>
    /\ exitCode = Null
    /\ sameBundle = FALSE
    /\ vector1 = <<0, 0>>
    /\ vector2 = <<0, 0>>
    /\ cosine_sim = 0
    /\ seq_present = FALSE
    /\ dtw = NoDtw
    /\ combined_sim = 0
    /\ segments1 = Null
    /\ segments2 = Null
    /\ segment_sim = 0
    /\ final_sim = 0
    /\ result = Null
    /\ trace = {}
    /\ reciters = <<>>
    /\ idx = 0
    /\ matches = <<>>
    /\ response = Null
    /\ request = Null
    /\ effects = {}
    /\ callerTemp = "none"
    /\ storage = FALSE
    /\ existing_reciters = <<>>
    /\ tableWrite = Null
    /\ input = Null
    /\ output = Null

\* a program that runs alone, the table out of its reach
Idle(e) ==
    /\ Local(e)
    /\ reciters_table = <<>>
    /\ name_unique = FALSE
    /\ workers = <<>>

Init == \E e \in Programs : Idle(e)

----------------------------------------------------------------------------
(* process_audio *)

\* the raw aggregate vectors an audio clip can produce, before normalisation
RawVectors == {<<20, 0>>, <<4, 3>>, <<-3, 4>>}

\* feature_vector / np.linalg.norm(feature_vector)
Normalize(v) == <<ExactDiv(v[1] * FpUnit, Norm(v)), ExactDiv(v[2] * FpUnit, Norm(v))>>

\* line 27: base64.b64decode of the payload
PA_Decode ==
    /\ pc = "pa_decode"
    /\ \E ok \in BOOLEAN :
        IF ok THEN /\ pc' = "pa_tempfile"
                   /\ raised' = raised
              ELSE /\ pc' = "pa_raised"
                   /\ raised' = "binascii.Error"
    /\ UNCHANGED <<entry, concVars, effects, request, regVars, unitVars, cliVars, paVars, tsmVars, rankVars>>

\* lines 39-41: with NamedTemporaryFile(delete=False) ...: write(audio_data).
\* The block is outside the try statement: a failing write leaves the
\* function with the file closed and still on disk.
PA_TempFile ==
    /\ pc = "pa_tempfile"
    /\ tempCreated' = TRUE
    /\ tempExists' = TRUE
    /\ effects' = effects \cup {"temp_file"}
    /\ \E written \in BOOLEAN :
        IF written THEN /\ pc' = "pa_load"
                        /\ raised' = raised
                   ELSE /\ pc' = "pa_raised"
                        /\ raised' = "OSError"
    /\ UNCHANGED <<entry, concVars, request, regVars, unitVars, cliVars, features, tsmVars,
                   rankVars>>

\* lines 106-110: the except clause removes the file if it is still there
ExceptCleanup(exists) == IF exists THEN FALSE ELSE exists

\* lines 43-48: librosa.load, then os.unlink; a failing load goes to the
\* except clause
PA_Load ==
    /\ pc = "pa_load"
    /\ \E decoded \in BOOLEAN :
        IF decoded THEN /\ tempExists' = FALSE
                        /\ pc' = "pa_extract"
                        /\ raised' = raised
                   ELSE /\ tempExists' = ExceptCleanup(tempExists)
                        /\ pc' = "pa_raised"
                        /\ raised' = "DecodeError"
    /\ UNCHANGED <<entry, concVars, effects, request, regVars, unitVars, cliVars, tempCreated, features, tsmVars, rankVars>>

\* lines 50-70: segmentation, normalisation and the extractors; a failure
\* goes to the except clause
PA_Extract ==
    /\ pc = "pa_extract"
    /\ effects' = effects \cup {"feature_extraction"}
    /\ \E failing \in {"none", "segment_audio", "apply_voice_normalization",
                       "extractors", "create_sequence_features"} :
        IF failing = "none" THEN /\ tempExists' = tempExists
                                 /\ pc' = "pa_vector"
                                 /\ raised' = raised
                            ELSE /\ tempExists' = ExceptCleanup(tempExists)
                                 /\ pc' = "pa_raised"
                                 /\ raised' = failing
    /\ UNCHANGED <<entry, concVars, request, regVars, unitVars, cliVars, tempCreated,
                   features, tsmVars, rankVars>>

\* lines 72-104: the aggregate vector, its normalisation and the result
PA_Vector ==
    /\ pc = "pa_vector"
    /\ \E feature_vector \in RawVectors :
        features' = Some([feature_vector |-> Normalize(feature_vector)])
    /\ pc' = "pa_returned"
    /\ UNCHANGED <<entry, concVars, effects, request, regVars, unitVars, cliVars, tempExists, tempCreated, raised, tsmVars, rankVars>>

process_audio == PA_Decode \/ PA_TempFile \/ PA_Load \/ PA_Extract \/ PA_Vector

----------------------------------------------------------------------------
(* two_stage_matcher *)

\* the threshold set to 0.2
STAGE1_THRESHOLD_Low == ExactDiv(One, 5)
STAGE1_THRESHOLD == ExactDiv(One, 2)    \* 0.5
W_COMBINED == 3                         \* 0.3, in tenths
\* the segment weight taken equal to the combined weight
W_SEGMENT_AsCombined == W_COMBINED
W_SEGMENT  == 7                         \* 0.7, in tenths

Text(what) == [kind |-> "text", what |-> what]
Json(what) == [kind |-> "json", what |-> what]

\* lines 474-486
Stage1(v1, v2) ==
    /\ pc = "stage1"
    /\ vector1' = v1
    /\ vector2' = v2
    /\ trace' = trace \cup {"feature_vector"}
    /\ LET cs == calculate_similarity(v1, v2, "cosine", Null, Null).value IN
        /\ cosine_sim' = cs
        /\ IF cs < STAGE1_THRESHOLD
           THEN /\ result' = Some([similarity |-> cs, method |-> "cosine_only",
                                   stage |-> 1])
                /\ pc' = "tsm_returned"
           ELSE /\ result' = result
                /\ pc' = "stage2"
    /\ UNCHANGED <<entry, concVars, effects, request, regVars, unitVars, cliVars, paVars, raised, sameBundle, seq_present, dtw,
                   combined_sim, segments1, segments2, segment_sim, final_sim,
                   rankVars>>

\* lines 488-497; f1, f2 are the sequence_features entries of the two bundles
\* (Null: the key is absent, so the subscript raises KeyError)
Stage2(f1, f2) ==
    /\ pc = "stage2"
    /\ IF f1 = Null \/ f2 = Null
       THEN /\ trace' = trace \cup {"sequence_features"}
            /\ raised' = "KeyError"
            /\ pc' = "tsm_raised"
            /\ UNCHANGED <<seq_present, dtw, combined_sim, stdout>>
       ELSE \E r \in {calculate_similarity(vector1, vector2, "combined", f1, f2)} :
            /\ trace' = trace \cup {"sequence_features"}
                              \cup (IF r.aligned = "skipped" THEN {} ELSE {"alignment"})
            /\ seq_present' = TRUE
            /\ dtw' = [aligned |-> r.aligned, distance |-> r.dtw.distance,
                       max_len |-> r.dtw.max_len, dtw_sim |-> r.dtw.dtw_sim]
            /\ combined_sim' = r.value
            \* line 406: the fallback reports itself with print()
            /\ stdout' = IF r.aligned = "raised"
                         THEN Append(stdout, Text("DTW failed"))
                         ELSE stdout
            /\ raised' = raised
            /\ pc' = "stage3"
    /\ UNCHANGED <<entry, concVars, effects, request, regVars, unitVars, args, stderr, exitCode, paVars, sameBundle, vector1,
                   vector2, cosine_sim, segments1, segments2, segment_sim,
                   final_sim, result, rankVars>>

\* lines 499-516; g1, g2 are the results of sample.get('segments')
Stage3(g1, g2) ==
    /\ pc = "stage3"
    /\ segments1' = g1
    /\ segments2' = g2
    /\ \E attempted \in {HasSegments(g1) /\ HasSegments(g2)} :
       \E seg \in {IF attempted THEN compare_segments(Val(g1), Val(g2)) ELSE 0} :
       \E fin \in {IF attempted
                   THEN ExactDiv(W_COMBINED * combined_sim + W_SEGMENT * seg, 10)
                   ELSE combined_sim} :
          /\ trace' = trace \cup {"segments"}
                            \cup (IF attempted THEN {"compare_segments"} ELSE {})
          /\ segment_sim' = seg
          /\ final_sim' = fin
          /\ result' = Some([similarity |-> fin,
                             cosine_similarity |-> cosine_sim,
                             dtw_similarity |-> combined_sim,
                             segment_similarity |-> IF seg > 0 THEN Some(seg) ELSE Null,
                             method |-> "full",
                             stage |-> IF seg > 0 THEN 3 ELSE 2])
    /\ pc' = "tsm_returned"
    /\ UNCHANGED <<entry, concVars, effects, request, regVars, unitVars, cliVars, paVars, raised, sameBundle, vector1, vector2,
                   cosine_sim, seq_present, dtw, combined_sim, rankVars>>

two_stage_matcher ==
    \/ \E v1, v2 \in Fingerprints : (sameBundle => v1 = v2) /\ Stage1(v1, v2)
    \/ \E f1, f2 \in SeqFields : (sameBundle => f1 = f2) /\ Stage2(f1, f2)
    \/ \E g1, g2 \in SegFields : (sameBundle => g1 = g2) /\ Stage3(g1, g2)

----------------------------------------------------------------------------
(* Command line of python_processor.py, lines 519-587 *)

ArgKinds   == {"none", "given"}        \* absent (or empty), present
FileStates == {"missing", "unreadable", "ok"}
Payloads   == {"invalid_json", "no_samples", "ok"}

Exit(code) == /\ exitCode' = Some(code)
              /\ pc' = "exited"

\* the error object printed on standard output
ErrorExit_Stdout == /\ stdout' = Append(stdout, Json("error"))
                    /\ stderr' = stderr
                    /\ Exit(1)

ErrorExit == /\ stderr' = Append(stderr, Json("error"))
             /\ stdout' = stdout
             /\ Exit(1)

\* lines 520-525: the parsed arguments; an empty value counts as absent
ParseArgs ==
    /\ pc = "start"
    /\ entry = "cli"
    /\ \E p, m \in ArgKinds :
        /\ args' = [process |-> p, match |-> m]
        /\ pc' = IF p # "none" THEN "cli_process"
                 ELSE IF m # "none" THEN "cli_match"
                 ELSE "cli_noargs"
    /\ UNCHANGED <<entry, concVars, effects, request, regVars, unitVars, stdout, stderr, exitCode, paVars, raised, tsmVars, rankVars>>

\* lines 528-545: the --process argument, up to the call of process_audio
CliProcessInput ==
    /\ pc = "cli_process"
    /\ \E atfile \in BOOLEAN, file \in FileStates :
        IF atfile /\ file # "ok"
        THEN ErrorExit
        ELSE /\ pc' = "pa_decode"
             /\ UNCHANGED <<stdout, stderr, exitCode>>
    /\ UNCHANGED <<entry, concVars, effects, request, regVars, unitVars, args, paVars, raised, tsmVars, rankVars>>

\* lines 545-550: print the features, or the error of process_audio
CliProcessOutput ==
    /\ entry = "cli"
    /\ \/ /\ pc = "pa_returned"
          /\ stdout' = Append(stdout, Json("features"))
          /\ stderr' = stderr
          /\ Exit(0)
       \/ /\ pc = "pa_raised"
          /\ ErrorExit
    /\ UNCHANGED <<entry, concVars, effects, request, regVars, unitVars, args, paVars, raised, tsmVars, rankVars>>

\* lines 553-575: the --match argument, up to the call of two_stage_matcher
CliMatchInput ==
    /\ pc = "cli_match"
    /\ \E atfile \in BOOLEAN, file \in FileStates, payload \in Payloads,
          same \in BOOLEAN :
        IF (atfile /\ file # "ok") \/ payload # "ok"
        THEN /\ ErrorExit
             /\ sameBundle' = sameBundle
        ELSE /\ pc' = "stage1"
             /\ sameBundle' = same
             /\ UNCHANGED <<stdout, stderr, exitCode>>
    /\ UNCHANGED <<entry, concVars, effects, request, regVars, unitVars, args, paVars, raised, vector1, vector2, cosine_sim,
                   seq_present, dtw, combined_sim, segments1, segments2,
                   segment_sim, final_sim, result, trace, rankVars>>

\* lines 577-582: print the result, or the error of two_stage_matcher
CliMatchOutput ==
    /\ \/ /\ pc = "tsm_returned"
          /\ stdout' = Append(stdout, Json("result"))
          /\ stderr' = stderr
          /\ Exit(0)
       \/ /\ pc = "tsm_raised"
          /\ ErrorExit
    /\ UNCHANGED <<entry, concVars, effects, request, regVars, unitVars, args, paVars, raised, tsmVars, rankVars>>

\* lines 584-587: neither --process nor --match
CliNoArgs ==
    /\ pc = "cli_noargs"
    /\ stdout' = Append(stdout, Text("help"))
    /\ stderr' = stderr
    /\ Exit(1)
    /\ UNCHANGED <<entry, concVars, effects, request, regVars, unitVars, args, paVars, raised, tsmVars, rankVars>>

----------------------------------------------------------------------------
(* process-recitation handler, route.py lines 18-100 *)

RANK_THRESHOLD == ExactDiv(One * 4, 10)     \* 0.4
TOP_N == 5

\* fingerprints stored in the reciters table
StoredFingerprints == {<<10, 0>>, <<5, 0>>}
Tables == SeqsUpTo(StoredFingerprints, MaxReciters)

\* list.sort(key=similarity_score, reverse=True): stable, descending
\* insertion in ascending order
RECURSIVE InsertAsc(_, _)
InsertAsc(m, sorted) ==
    IF sorted = <<>> THEN <<m>>
    ELSE IF Head(sorted).similarity_score <= m.similarity_score
         THEN <<Head(sorted)>> \o InsertAsc(m, Tail(sorted))
         ELSE <<m>> \o sorted

RECURSIVE InsertDesc(_, _)
InsertDesc(m, sorted) ==
    IF sorted = <<>> THEN <<m>>
    ELSE IF Head(sorted).similarity_score >= m.similarity_score
         THEN <<Head(sorted)>> \o InsertDesc(m, Tail(sorted))
         ELSE <<m>> \o sorted

RECURSIVE SortDesc(_)
SortDesc(ms) ==
    IF ms = <<>> THEN <<>>
    ELSE InsertDesc(ms[Len(ms)], SortDesc(SubSeq(ms, 1, Len(ms) - 1)))

\* matches[:5]
Top(ms, n) == SubSeq(ms, 1, Min(n, Len(ms)))

SendError(msg)  == response' = Some([status |-> 400, error |-> msg, matches |-> <<>>])
SendSuccess(ms) == response' = Some([status |-> 200, error |-> "", matches |-> ms])

\* the request bodies: json is false for a body json.loads rejects; audio and
\* name say whether data.get() gives a truthy value (absent, null and the
\* empty string are all falsy)
Bodies == {[json |-> FALSE, audio |-> FALSE, name |-> FALSE]}
              \cup [json : {TRUE}, audio : BOOLEAN, name : BOOLEAN]

\* line 31: if not audio_base64
RecValid(body) == body.audio

\* lines 25-37: parse the body, reject a request without audio
RecParse ==
    /\ pc = "start"
    /\ entry = "process_recitation"
    /\ \E body \in {b \in Bodies : ~b.name} :     \* the handler reads no name
        /\ request' = Some(body)
        /\ IF ~body.json
           THEN /\ SendError("Error parsing request")
                /\ pc' = "responded"
           ELSE IF ~RecValid(body)
           THEN /\ SendError("No audio data provided")
                /\ pc' = "responded"
           ELSE /\ response' = response
                /\ pc' = "pa_decode"
    /\ UNCHANGED <<entry, concVars, effects, regVars, unitVars, cliVars, paVars, raised,
                   tsmVars, reciters, idx, matches>>

\* lines 39-44: select the reciters; lines 84-85 for a failure of
\* process_audio or of the query
RecFetch ==
    /\ entry = "process_recitation"
    /\ \/ /\ pc = "pa_returned"
          /\ effects' = effects \cup {"table_read"}
          /\ \/ \E table \in Tables :
                  /\ reciters' = table
                  /\ idx' = 1
                  /\ matches' = <<>>
                  /\ response' = response
                  /\ pc' = "rank_loop"
             \/ /\ SendError("Error processing audio")
                /\ pc' = "responded"
                /\ UNCHANGED <<reciters, idx, matches>>
       \/ /\ pc = "pa_raised"
          /\ effects' = effects
          /\ SendError("Error processing audio")
          /\ pc' = "responded"
          /\ UNCHANGED <<reciters, idx, matches>>
    /\ UNCHANGED <<entry, concVars, request, regVars, unitVars, cliVars, paVars, raised,
                   tsmVars>>

\* lines 45-70: one iteration of the loop over the reciters (the randomly
\* jittered aspect_scores of a match are not part of the ranking and are left
\* out of the item)
RecLoop ==
    /\ pc = "rank_loop"
    /\ idx <= Len(reciters)
    /\ LET similarity == calculate_similarity(Val(features).feature_vector,
                                              reciters[idx], "combined",
                                              Null, Null).value
       IN matches' = IF similarity > RANK_THRESHOLD
                     THEN Append(matches, [id |-> idx, similarity_score |-> similarity])
                     ELSE matches
    /\ idx' = idx + 1
    /\ UNCHANGED <<entry, concVars, effects, request, regVars, unitVars, pc, cliVars, paVars, raised, tsmVars, reciters, response>>

\* lines 72-82: sort, keep the first five, answer
RecRespond ==
    /\ pc = "rank_loop"
    /\ idx > Len(reciters)
    /\ SendSuccess(Top(SortDesc(matches), TOP_N))
    /\ pc' = "responded"
    /\ UNCHANGED <<entry, concVars, effects, request, regVars, unitVars, cliVars, paVars, raised, tsmVars, reciters, idx, matches>>

----------------------------------------------------------------------------
(* register-reciter handler, new-reciter-py/route.py lines 20-126 *)

\* the test of line 35 without the reciter name
RegValid_AudioOnly(body) == body.audio

\* line 35: if not audio_base64 or not reciter_name
RegValid(body) == body.audio /\ body.name

\* the inner except clause, lines 110-111: an error response and nothing else
RegFail ==
    /\ SendError("Error processing reciter")
    /\ pc' = "responded"

\* lines 28-37: parse the body, reject a request without audio or name
RegParse ==
    /\ pc = "start"
    /\ entry = "new_reciter"
    /\ \E body \in Bodies :
        /\ request' = Some(body)
        /\ IF ~body.json
           THEN /\ SendError("Error parsing request")
                /\ pc' = "responded"
           ELSE IF ~RegValid(body)
           THEN /\ SendError("Audio data and reciter name are required")
                /\ pc' = "responded"
           ELSE /\ response' = response
                /\ pc' = "reg_decode"
    /\ UNCHANGED <<entry, concVars, effects, regVars, unitVars, cliVars, paVars, raised,
                   tsmVars, reciters, idx, matches>>

\* line 52: base64.b64decode of the payload
RegDecode ==
    /\ pc = "reg_decode"
    /\ \E ok \in BOOLEAN :
        IF ok THEN /\ pc' = "reg_tempfile"
                   /\ response' = response
              ELSE RegFail
    /\ UNCHANGED <<entry, concVars, effects, request, regVars, unitVars, cliVars, paVars,
                   raised, tsmVars, reciters, idx, matches>>

\* lines 53-55: with NamedTemporaryFile(delete=False) ...: write(audio_data)
RegTempFile ==
    /\ pc = "reg_tempfile"
    /\ callerTemp' = "exists"
    /\ effects' = effects \cup {"temp_file"}
    /\ \E ok \in BOOLEAN :
        IF ok THEN /\ pc' = "reg_upload"
                   /\ response' = response
              ELSE RegFail
    /\ UNCHANGED <<entry, concVars, request, storage, existing_reciters, tableWrite,
                   unitVars, cliVars, paVars, raised, tsmVars, reciters, idx,
                   matches>>

\* lines 57-58: upload of the temporary file to the storage bucket
RegUpload ==
    /\ pc = "reg_upload"
    /\ effects' = effects \cup {"storage_upload"}
    /\ \E ok \in BOOLEAN :
        IF ok THEN /\ storage' = TRUE
                   /\ pc' = "reg_url"
                   /\ response' = response
              ELSE /\ storage' = storage
                   /\ RegFail
    /\ UNCHANGED <<entry, concVars, request, callerTemp, existing_reciters, tableWrite,
                   unitVars, cliVars, paVars, raised, tsmVars, reciters, idx,
                   matches>>

\* line 61: get_public_url
RegUrl ==
    /\ pc = "reg_url"
    /\ \E ok \in BOOLEAN :
        IF ok THEN /\ pc' = "reg_unlink"
                   /\ response' = response
              ELSE RegFail
    /\ UNCHANGED <<entry, concVars, effects, request, regVars, unitVars, cliVars, paVars,
                   raised, tsmVars, reciters, idx, matches>>

\* lines 64-68: remove the temporary file, then call process_audio
RegUnlink ==
    /\ pc = "reg_unlink"
    /\ callerTemp' = IF callerTemp = "exists" THEN "deleted" ELSE callerTemp
    /\ pc' = "pa_decode"
    /\ UNCHANGED <<entry, concVars, effects, request, storage, existing_reciters,
                   tableWrite, unitVars, cliVars, paVars, raised, tsmVars,
                   rankVars>>

\* ids of the rows that carry the name of the request
NameRows == {<<>>, <<1>>, <<1, 2>>}

\* line 78: select the reciters of that name; lines 110-111 for a failure of
\* process_audio or of the query
RegSelect ==
    /\ entry = "new_reciter"
    /\ \/ /\ pc = "pa_returned"
          /\ effects' = effects \cup {"table_read"}
          /\ \/ \E rows \in NameRows :
                  /\ existing_reciters' = rows
                  /\ response' = response
                  /\ pc' = "reg_write"
             \/ /\ RegFail
                /\ existing_reciters' = existing_reciters
       \/ /\ pc = "pa_raised"
          /\ effects' = effects
          /\ RegFail
          /\ existing_reciters' = existing_reciters
    /\ UNCHANGED <<entry, concVars, request, callerTemp, storage, tableWrite, unitVars,
                   cliVars, paVars, raised, tsmVars, reciters, idx, matches>>

\* lines 80-98: update the first row of that name, or insert a new row
RegWrite ==
    /\ pc = "reg_write"
    /\ effects' = effects \cup {"table_write"}
    /\ \E ok \in BOOLEAN :
        IF ok THEN /\ tableWrite' =
                        IF existing_reciters # <<>>
                        THEN Some([op |-> "update", id |-> existing_reciters[1]])
                        ELSE Some([op |-> "insert",
                                   id |-> Len(existing_reciters) + 1])
                   /\ pc' = "reg_respond"
                   /\ response' = response
              ELSE /\ tableWrite' = tableWrite
                   /\ RegFail
    /\ UNCHANGED <<entry, concVars, request, callerTemp, storage, existing_reciters,
                   unitVars, cliVars, paVars, raised, tsmVars, reciters, idx,
                   matches>>

\* lines 100-108: the success response
RegRespond ==
    /\ pc = "reg_respond"
    /\ response' = Some([status |-> 200, error |-> "",
                         reciterId |-> Val(tableWrite).id])
    /\ pc' = "responded"
    /\ UNCHANGED <<entry, concVars, effects, request, regVars, unitVars, cliVars, paVars,
                   raised, tsmVars, reciters, idx, matches>>

new_reciter ==
    \/ RegParse
    \/ RegDecode
    \/ RegTempFile
    \/ RegUpload
    \/ RegUrl
    \/ RegUnlink
    \/ RegSelect
    \/ RegWrite
    \/ RegRespond

----------------------------------------------------------------------------
(* QuranSpeakerPredictor.predict_from_base64, predictor.py lines 124-137 *)

\* lines 136-137: except Exception: return None
PredFail ==
    /\ output' = Some("None")
    /\ pc' = "pred_returned"

\* line 126: base64.b64decode
PredDecode ==
    /\ pc = "start"
    /\ entry = "predictor"
    /\ \E ok \in BOOLEAN :
        IF ok THEN /\ pc' = "pred_tempfile"
                   /\ output' = output
              ELSE PredFail
    /\ UNCHANGED <<entry, concVars, effects, request, regVars, input, cliVars, paVars,
                   raised, tsmVars, rankVars>>

\* lines 128-130: with NamedTemporaryFile(delete=False) ...: write(audio_data)
PredTempFile ==
    /\ pc = "pred_tempfile"
    /\ callerTemp' = "exists"
    /\ effects' = effects \cup {"temp_file"}
    /\ \E ok \in BOOLEAN :
        IF ok THEN /\ pc' = "pred_predict"
                   /\ output' = output
              ELSE PredFail
    /\ UNCHANGED <<entry, concVars, request, storage, existing_reciters, tableWrite,
                   input, cliVars, paVars, raised, tsmVars, rankVars>>

\* lines 132-135: predict_from_file, which gives the predictions, gives None
\* (lines 95-97) or raises; os.unlink follows only when it returns
PredPredict ==
    /\ pc = "pred_predict"
    /\ \E results \in {"predictions", "None", "raises"} :
        IF results # "raises"
        THEN /\ callerTemp' = "deleted"
             /\ output' = Some(results)
             /\ pc' = "pred_returned"
        ELSE /\ callerTemp' = callerTemp
             /\ PredFail
    /\ UNCHANGED <<entry, concVars, effects, request, storage, existing_reciters,
                   tableWrite, input, cliVars, paVars, raised, tsmVars,
                   rankVars>>

predict_from_base64 == PredDecode \/ PredTempFile \/ PredPredict

----------------------------------------------------------------------------
(* Statistics, exact: a value is an integer number of units of 1/StatUnit;  *)
(* a standard deviation is kept as the record [sqrt |-> n], the square root *)
(* of n units squared, which need not be a whole number of units            *)

StatUnit == 60

MaxOf(S) == CHOOSE m \in S : \A n \in S : m >= n
Range(s) == {s[i] : i \in 1..Len(s)}

\* np.sqrt of n units squared
Root(n) == [sqrt |-> n]

\* the number of units of a root that is a whole number of them
Value(x) == CHOOSE r \in 0..x.sqrt : r * r = x.sqrt

\* np.mean of a sequence of whole numbers
Mean(s) == ExactDiv(SumSeq(s) * StatUnit, Len(s))

\* np.std of a sequence of whole numbers (population standard deviation)
Variance(s) ==
    ExactDiv(StatUnit * StatUnit
                 * (Len(s) * SumSeq([i \in 1..Len(s) |-> s[i] * s[i]])
                        - SumSeq(s) * SumSeq(s)),
             Len(s) * Len(s))
Std(s) == Root(Variance(s))

----------------------------------------------------------------------------
(* extract_pause_patterns, lines 259-303 *)

MaxEnergyFrames == 4    \* longest energy sequence, in frames

\* short-time energy of a frame; 1 is 0.05 * 20 and 0.025 * 40
EnergyVals == {0, 1, 20, 40}
Energies   == SeqsUpTo(EnergyVals, MaxEnergyFrames) \ {<<>>}

\* a frame at the threshold counted as pause
is_pause_AtOrBelow(rms) ==
    [i \in 1..Len(rms) |-> IF 20 * rms[i] <= MaxOf(Range(rms)) THEN 1 ELSE 0]

\* lines 275-276: threshold = 0.05 * np.max(rms); is_pause = rms < threshold
is_pause(rms) ==
    [i \in 1..Len(rms) |-> IF 20 * rms[i] < MaxOf(Range(rms)) THEN 1 ELSE 0]

\* lines 279-290: the loop over the frames from i on, then the closing test
RECURSIVE PauseLoop(_, _, _, _)
PauseLoop(isp, i, current_pause, pause_lengths) ==
    IF i > Len(isp)
    THEN IF current_pause > 0 THEN Append(pause_lengths, current_pause)
                              ELSE pause_lengths
    ELSE IF isp[i] = 1
    THEN PauseLoop(isp, i + 1, current_pause + 1, pause_lengths)
    ELSE IF current_pause > 0
    THEN PauseLoop(isp, i + 1, 0, Append(pause_lengths, current_pause))
    ELSE PauseLoop(isp, i + 1, current_pause, pause_lengths)

\* lines 293-301: the four statistics
pause_features(pause_lengths) ==
    IF pause_lengths # <<>>
    THEN <<Len(pause_lengths) * StatUnit,
           Mean(pause_lengths),
           IF Len(pause_lengths) > 1 THEN Std(pause_lengths) ELSE Root(0),
           MaxOf(Range(pause_lengths)) * StatUnit>>
    ELSE <<0, 0, Root(0), 0>>

extract_pause_patterns(rms) == pause_features(PauseLoop(is_pause(rms), 1, 0, <<>>))

\* the call on one energy sequence
Call_extract_pause_patterns ==
    /\ pc = "start"
    /\ entry = "extract_pause_patterns"
    /\ \E rms \in Energies :
        /\ input' = Some(rms)
        /\ output' = Some([pause_lengths |-> PauseLoop(is_pause(rms), 1, 0, <<>>),
                           pause_features |-> extract_pause_patterns(rms)])
    /\ pc' = "returned"
    /\ UNCHANGED <<entry, concVars, effects, request, regVars, cliVars, paVars, raised,
                   tsmVars, rankVars>>

----------------------------------------------------------------------------
(* segment_audio, lines 146-171 *)

MaxSamples == 8     \* length of the buffer, in samples

\* the sampling rate (line 45), scaled down from 22050 to 4 samples a second
SAMPLE_RATE == 4

RECURSIVE SetToSeq(_)
SetToSeq(S) == IF S = {} THEN <<>>
               ELSE <<MinOf(S)>> \o SetToSeq(S \ {MinOf(S)})

RECURSIVE Pairs(_)
Pairs(s) == IF s = <<>> THEN <<>>
            ELSE <<<<s[1], s[2]>>>> \o Pairs(SubSeq(s, 3, Len(s)))

\* librosa.effects.split: the non-silent intervals <<start, end>> of a buffer
\* of n samples, in chronological order, silence between any two of them
IntervalLists(n) ==
    {Pairs(SetToSeq(C)) : C \in {D \in SUBSET (0..n) : Cardinality(D) % 2 = 0}}

\* np.mean(mfcc(y[start:end]), axis=1): the descriptor of that stretch
Descriptor(start, end) == [from |-> start, to |-> end]

\* an interval of exactly the minimum length kept
KeepInterval_AtLeast(start, end, rate) == 2 * (end - start) >= rate

\* lines 161 and 165: min_length = sr * 0.5; end - start > min_length
KeepInterval(start, end, rate) == 2 * (end - start) > rate

\* lines 163-169: the loop over the intervals from k on
RECURSIVE SegmentLoop(_, _, _, _)
SegmentLoop(intervals, k, rate, segments) ==
    IF k > Len(intervals) THEN segments
    ELSE IF KeepInterval(intervals[k][1], intervals[k][2], rate)
    THEN SegmentLoop(intervals, k + 1, rate,
                     Append(segments, Descriptor(intervals[k][1], intervals[k][2])))
    ELSE SegmentLoop(intervals, k + 1, rate, segments)

segment_audio(intervals, rate) == SegmentLoop(intervals, 1, rate, <<>>)

\* the call on the intervals of one buffer
Call_segment_audio ==
    /\ pc = "start"
    /\ entry = "segment_audio"
    /\ \E intervals \in IntervalLists(MaxSamples) :
        /\ input' = Some(intervals)
        /\ output' = Some(segment_audio(intervals, SAMPLE_RATE))
    /\ pc' = "returned"
    /\ UNCHANGED <<entry, concVars, effects, request, regVars, cliVars, paVars, raised,
                   tsmVars, rankVars>>

----------------------------------------------------------------------------
(* extract_pitch_contour, lines 173-203 *)

MaxPitchFrames == 3     \* most analysis frames of a buffer

\* one frame of librosa.core.piptrack, two frequency bins: the candidate
\* pitches p and their magnitudes m
PitchColumns ==
    {[p |-> <<0, 5>>,  m |-> <<0, 3>>],     \* the estimate is in the second bin
     [p |-> <<2, 5>>,  m |-> <<3, 3>>],     \* equal magnitudes
     [p |-> <<0, 0>>,  m |-> <<0, 0>>],     \* no estimate
     [p |-> <<-1, 2>>, m |-> <<3, 1>>]}     \* a negative estimate

\* the arrays of shape (bins, frames) made of a sequence of such frames
Track(cols, field) ==
    [b \in 1..2 |-> [t \in 1..Len(cols) |-> IF field = "p" THEN cols[t].p[b]
                                                         ELSE cols[t].m[b]]]

\* magnitudes[:, t].argmax(): the first index of the largest entry
ArgMax(arr, t) ==
    MinOf({b \in 1..Len(arr) :
              \A c \in 1..Len(arr) : arr[c][t] <= arr[b][t]})

\* unreliable estimates removed instead of zeroed
Clamp_Drop(contour) == SelectSeq(contour, LAMBDA x : x > 0)

\* line 197: pitch_contour[pitch_contour <= 0] = 0
Clamp(contour) ==
    [t \in 1..Len(contour) |-> IF contour[t] <= 0 THEN 0 ELSE contour[t]]

extract_pitch_contour(pitches, magnitudes) ==
    LET picked == [t \in 1..Len(pitches[1]) |->
                        pitches[ArgMax(magnitudes, t)][t]]       \* lines 188-194
        pitch_contour == Clamp(picked)
    IN  \* lines 200-201
        IF Len(pitch_contour) = 0
              \/ \A t \in 1..Len(pitch_contour) : pitch_contour[t] = 0
        THEN <<0>>
        ELSE pitch_contour

\* the call on the tracks of one buffer
Call_extract_pitch_contour ==
    /\ pc = "start"
    /\ entry = "extract_pitch_contour"
    /\ \E cols \in SeqsUpTo(PitchColumns, MaxPitchFrames) :
        /\ input' = Some([pitches |-> Track(cols, "p"),
                          magnitudes |-> Track(cols, "m")])
        /\ output' = Some(extract_pitch_contour(Track(cols, "p"),
                                                Track(cols, "m")))
    /\ pc' = "returned"
    /\ UNCHANGED <<entry, concVars, effects, request, regVars, cliVars, paVars, raised,
                   tsmVars, rankVars>>

----------------------------------------------------------------------------
(* compare_segments called on its own, lines 412-461 *)

\* segment descriptors: one opposite to another, two oblique to both
CallSegVecs  == {<<3, 4>>, <<-3, -4>>, <<4, 3>>, <<5, 0>>}
CallSegLists == SeqsUpTo(CallSegVecs, MaxSegs)

\* lines 438-453: the reference index chosen for each query segment from j
\* on, 0 where the inner loop leaves best_idx at -1
RECURSIVE Assigned(_, _, _, _, _)
Assigned(reference, query, j, used_indices, chosen) ==
    IF j > Len(query) THEN chosen
    ELSE LET b == BestRef(reference, query[j], used_indices, 1, -One, 0) IN
         IF b.best_idx >= 1
         THEN Assigned(reference, query, j + 1, used_indices \cup {b.best_idx},
                       Append(chosen, b.best_idx))
         ELSE Assigned(reference, query, j + 1, used_indices, Append(chosen, 0))

\* lines 427-436: the longer list is the reference, the first one on a tie
Reference(segs1, segs2) == IF Len(segs1) >= Len(segs2) THEN segs1 ELSE segs2
Query(segs1, segs2)     == IF Len(segs1) >= Len(segs2) THEN segs2 ELSE segs1

\* the call on two segment lists
Call_compare_segments ==
    /\ pc = "start"
    /\ entry = "compare_segments"
    /\ \E segs1, segs2 \in CallSegLists :
        /\ input' = Some([segments1 |-> segs1, segments2 |-> segs2])
        /\ output' =
             Some([value |-> compare_segments(segs1, segs2),
                   chosen |-> IF segs1 = <<>> \/ segs2 = <<>> THEN <<>>
                              ELSE Assigned(Reference(segs1, segs2),
                                            Query(segs1, segs2), 1, {}, <<>>)])
    /\ pc' = "returned"
    /\ UNCHANGED <<entry, concVars, effects, request, regVars, cliVars, paVars, raised,
                   tsmVars, rankVars>>

----------------------------------------------------------------------------
(* the aggregate vector of process_audio, lines 59-86 *)

N_MFCC     == 20    \* line 59: n_mfcc = 20
N_CHROMA   == 12    \* line 60: rows of chroma_stft
N_MELS     == 128   \* line 61: n_mels = 128
N_TEMPO    == 384   \* line 62: rows of tempogram
N_FORMANTS == 3     \* line 205: n_formants = 3
N_KEPT     == 20    \* lines 77-78: [:20]

Zeros(n) == [i \in 1..n |-> 0]

\* rows over time: a in every frame; a, a + 2, a, ...
Flat(frames, a) == [t \in 1..frames |-> a]
Swing(frames, a) == [t \in 1..frames |-> IF t % 2 = 1 THEN a ELSE a + 2]

\* a feature matrix whose first row is row1, every other row zero
FirstRow(rows, row1) ==
    [r \in 1..rows |-> IF r = 1 THEN row1 ELSE Zeros(Len(row1))]

MeanRows(m) == [r \in 1..Len(m) |-> Mean(m[r])]     \* np.mean(m, axis=1)
StdRows(m)  == [r \in 1..Len(m) |-> Value(Std(m[r]))]   \* np.std(m, axis=1)
Take(s, n)  == SubSeq(s, 1, Min(n, Len(s)))         \* s[:n]

\* np.mean(pause_patterns), of the four statistics
MeanOfStats(stats) ==
    ExactDiv(stats[1] + stats[2] + Value(stats[3]) + stats[4], Len(stats))

\* lines 73-83
feature_vector(mfccs, chroma, mel_spec, tempo, pitch_contour, formants, pause_patterns) ==
    MeanRows(mfccs)
        \o StdRows(mfccs)
        \o MeanRows(chroma)
        \o Take(MeanRows(mel_spec), N_KEPT)
        \o Take(MeanRows(tempo), N_KEPT)
        \o <<Mean(pitch_contour)>>
        \o <<Value(Std(pitch_contour))>>
        \o MeanRows(formants)
        \o <<MeanOfStats(pause_patterns)>>

\* np.linalg.norm(v), squared
NormSq(v) == SumSeq([i \in 1..Len(v) |-> v[i] * v[i]])

\* line 86: each entry divided by the norm.  The quotient x / sqrt(n) is kept
\* as the pair [num |-> x, norm_sq |-> n]; the pair 0 / sqrt(0) is what numpy
\* gives as nan
normalized_vector(v) ==
    [i \in 1..Len(v) |-> [num |-> v[i], norm_sq |-> NormSq(v)]]

\* energy sequences with no pause, one pause, two pauses of 2 and 4 frames
VectorEnergies == {<<20>>, <<0, 20>>, <<0, 0, 20, 0, 0, 0, 0>>}

\* frame counts of the clips
VectorFrames == {1, 2, 4}

\* the vector of one clip, from the arrays the extractors gave for it
Call_feature_vector ==
    /\ pc = "start"
    /\ entry = "feature_vector"
    /\ \E frames \in VectorFrames :
       \E mfcc_row   \in {Flat(frames, 0), Swing(frames, 1)},
          level \in {0, 1},        \* of the chroma, mel, tempo and formant rows
          pitch_contour \in {<<0>>, Swing(frames, 2)},
          rms \in VectorEnergies :
       \E chroma_row  \in {Flat(frames, level)},
          mel_row     \in {Flat(frames, 2 * level)},
          tempo_row   \in {Flat(frames, level)},
          formant_row \in {Flat(frames, 5 * level)} :
       \E v \in {feature_vector(FirstRow(N_MFCC, mfcc_row),
                                FirstRow(N_CHROMA, chroma_row),
                                FirstRow(N_MELS, mel_row),
                                FirstRow(N_TEMPO, tempo_row),
                                pitch_contour,
                                FirstRow(N_FORMANTS, formant_row),
                                extract_pause_patterns(rms))} :
        /\ input' = Some([mfcc_row |-> mfcc_row, chroma_row |-> chroma_row,
                          mel_row |-> mel_row, tempo_row |-> tempo_row,
                          pitch_contour |-> pitch_contour,
                          formant_row |-> formant_row,
                          pause_patterns |-> extract_pause_patterns(rms)])
        /\ output' = Some([feature_vector |-> v,
                           normalized_vector |-> normalized_vector(v)])
    /\ pc' = "returned"
    /\ UNCHANGED <<entry, concVars, effects, request, regVars, cliVars, paVars, raised,
                   tsmVars, rankVars>>

----------------------------------------------------------------------------
(* the reciters table with several writers at work:
   new-reciter-py/route.py lines 77-98, extract-features.py lines 180-224 *)

MaxWorkers == 2     \* requests and script runs at work at the same time

\* reciter names, as sent in a request and as read off a directory name
Names == {"husary", "minshawi"}

\* the table holds husary when the writers start; minshawi is a new name
StoredRows == <<[id |-> 1, name |-> "husary", feature_vector |-> 0]>>

\* line 178: the directories a run of the script walks through
Listings == {<<"husary">>, <<"husary", "minshawi">>, <<"minshawi">>}

\* a register-reciter request whose audio has been processed (line 68), and
\* a run of process_reciters
Jobs == [kind : {"new_reciter"}, todo : {<<n>> : n \in Names}] \cup [kind : {"extract_features"}, todo : Listings]

Worker(job) == [kind |-> job.kind, todo |-> job.todo, at |-> "select", seen |-> <<>>, log |-> <<>>]

localVars == <<entry, pc, effects, request, regVars, unitVars, cliVars, paVars, raised, tsmVars, rankVars>>

\* select('id, name').eq('name', reciter_name): the ids of the rows of a name
IdsNamed(name) ==
    LET rows == SelectSeq(reciters_table, LAMBDA r : r.name = name)
    IN  [i \in 1..Len(rows) |-> rows[i].id]

\* route.py line 78, extract-features.py line 201: the query for the name
SelectReciters ==
    \E w \in DOMAIN workers :
        /\ workers[w].at = "select"
        /\ workers' = [workers EXCEPT ![w].seen = IdsNamed(Head(workers[w].todo)),
                                      ![w].at = "write"]
        /\ UNCHANGED <<reciters_table, name_unique, localVars>>

\* the worker has dealt with its name: the request responds, the run goes on
\* to its next directory
Logged(w, op) ==
    LET rest == Tail(workers[w].todo) IN
    [workers EXCEPT ![w].log = Append(@, [op |-> op, name |-> Head(workers[w].todo)]),
                    ![w].todo = rest,
                    ![w].seen = <<>>,
                    ![w].at = IF rest = <<>> THEN "done" ELSE "select"]

\* route.py lines 80-98, extract-features.py lines 205-221: update the first
\* row that the query returned, or insert a row when it returned none; an
\* insert that the schema rejects raises (route.py lines 110-111,
\* extract-features.py lines 222-223)
WriteReciter ==
    \E w \in DOMAIN workers :
        LET name == Head(workers[w].todo)
            seen == workers[w].seen
        IN  /\ workers[w].at = "write"
            /\ IF seen # <<>>
               THEN /\ reciters_table' =
                         [i \in DOMAIN reciters_table |->
                            IF reciters_table[i].id = seen[1]
                            THEN [reciters_table[i] EXCEPT
                                    !.name = IF workers[w].kind = "new_reciter" THEN name ELSE @,
                                    !.feature_vector = w]
                            ELSE reciters_table[i]]
                    /\ workers' = Logged(w, "update")
               ELSE IF name_unique /\ IdsNamed(name) # <<>>
               THEN /\ reciters_table' = reciters_table
                    /\ workers' = Logged(w, "error")
               ELSE /\ reciters_table' =
                         Append(reciters_table,
                                [id |-> Len(reciters_table) + 1, name |-> name,
                                 feature_vector |-> w])
                    /\ workers' = Logged(w, "insert")
            /\ UNCHANGED <<name_unique, localVars>>

----------------------------------------------------------------------------
(* Specification *)

Next ==
    \/ ParseArgs
    \/ CliProcessInput
    \/ CliProcessOutput
    \/ CliMatchInput
    \/ CliMatchOutput
    \/ CliNoArgs
    \/ process_audio
    \/ two_stage_matcher
    \/ RecParse
    \/ RecFetch
    \/ RecLoop
    \/ RecRespond
    \/ new_reciter
    \/ predict_from_base64

Spec == Init /\ [][Next]_vars

\* the functions of python_processor.py that are called on their own, each on
\* inputs drawn from a bounded set
Functions == {"extract_pause_patterns", "segment_audio", "extract_pitch_contour", "compare_segments", "feature_vector"}

InitFunctions == \E e \in Functions : Idle(e)

NextFunctions ==
    \/ Call_extract_pause_patterns
    \/ Call_segment_audio
    \/ Call_extract_pitch_contour
    \/ Call_compare_segments
    \/ Call_feature_vector

SpecFunctions == InitFunctions /\ [][NextFunctions]_vars

\* register-reciter requests and runs of the feature-extraction script at
\* work on one table, their queries and writes interleaved; the schema of the
\* table is not part of the repository, so it may or may not hold names unique
InitConcurrent ==
    /\ Local("concurrent")
    /\ reciters_table = StoredRows
    /\ name_unique \in BOOLEAN
    /\ workers \in [1..MaxWorkers -> {Worker(job) : job \in Jobs}]

NextConcurrent ==
    \/ SelectReciters
    \/ WriteReciter

SpecConcurrent == InitConcurrent /\ [][NextConcurrent]_vars

----------------------------------------------------------------------------
(* Properties *)

Returned   == result # Null
Res        == Val(result)
Passed1    == "sequence_features" \in trace     \* Stage 2 was entered
Falsy(field) == field = Null \/ field = Some(<<>>)
BothSegments == ~Falsy(segments1) /\ ~Falsy(segments2)

\* C1: when the dot product of the two fingerprints is below 0.5,
\* two_stage_matcher returns exactly {similarity = that dot product,
\* method = "cosine_only", stage = 1}, and it has read neither
\* sequence_features nor segments and has invoked neither the alignment nor
\* compare_segments.
C1_Stage1ShortCircuit ==
    ("feature_vector" \in trace /\ 2 * Dot(vector1, vector2) < 100)
        => /\ Returned
           /\ Res = [similarity |-> ExactDiv(Dot(vector1, vector2) * One, 100),
                     method |-> "cosine_only", stage |-> 1]
           /\ trace = {"feature_vector"}
           /\ pc \in {"tsm_returned", "exited"}

C1_Witness ==
    /\ pc = "tsm_returned"
    /\ Returned
    /\ Res.method = "cosine_only"
    /\ Dot(vector1, vector2) = 40
    /\ trace = {"feature_vector"}

\* C2: whenever Stage 2 is reached and the alignment raises, the similarity
\* returned by two_stage_matcher equals the Stage-1 cosine score, also when
\* both segment lists are non-empty.
C2_DtwFallbackIsCosine ==
    (Returned /\ dtw.aligned = "raised") => Res.similarity = cosine_sim

\* C3 as stated: when Stage 1 is passed and a segment list is empty or absent,
\* the result carries segment_similarity = 0 and its similarity is the
\* Stage-2 combined value.
C3_SegmentSimilarityZero ==
    (Returned /\ Passed1 /\ ~BothSegments)
        => /\ Res.segment_similarity = Some(0)
           /\ Res.similarity = combined_sim

\* C3 amended: when Stage 1 is passed and a segment list is empty or absent,
\* the segment similarity computed is 0, the result carries
\* segment_similarity = null, and its similarity is the Stage-2 combined value.
C3_SegmentSimilarityNull ==
    (Returned /\ Passed1 /\ ~BothSegments)
        => /\ segment_sim = 0
           /\ Res.segment_similarity = Null
           /\ Res.similarity = combined_sim
           /\ Res.similarity = Res.dtw_similarity

C3_Witness ==
    /\ pc = "tsm_returned"
    /\ Passed1
    /\ segments1 = Some(<<>>)
    /\ ~Falsy(segments2)
    /\ dtw.aligned = "ok"
    /\ Res.segment_similarity = Null
    /\ Res.similarity = combined_sim
    /\ combined_sim > 0

\* C4: when Stage 1 is passed and both segment lists are non-empty, the final
\* similarity is 0.3*combined + 0.7*compare_segments(segments1, segments2),
\* where combined is the value of Stage 2, which is 0.4*cosine + 0.6*dtw
\* whenever the alignment produced a dtw value; in every other outcome of
\* Stage 2 the final similarity is exactly combined.
C4_FinalBlend ==
    (Returned /\ Passed1)
        => /\ (dtw.aligned = "ok"
                 => 10 * combined_sim = 4 * cosine_sim + 6 * dtw.dtw_sim)
           /\ IF BothSegments
              THEN 10 * Res.similarity =
                       3 * combined_sim
                       + 7 * compare_segments(Val(segments1), Val(segments2))
              ELSE Res.similarity = combined_sim

C4_Witness ==
    /\ pc = "tsm_returned"
    /\ Passed1
    /\ BothSegments
    /\ dtw.aligned = "ok"
    /\ dtw.dtw_sim = ExactDiv(One, 2)
    /\ cosine_sim < One
    /\ segment_sim > 0
    /\ segment_sim < One
    /\ Res.similarity # combined_sim

\* C5: the stage tag is the terminal stage executed: stage = 1 iff the
\* computation stopped after the cosine; stage = 3, with a non-null
\* segment_similarity, iff Stage 3 was attempted (both segment lists
\* non-empty, blend applied); stage = 2 otherwise; also when the computed
\* segment similarity is zero or negative.
C5_StageIsTerminalStage ==
    Returned
        => /\ (Res.stage = 1) <=> ~Passed1
           /\ Passed1 =>
                /\ (Res.stage = 3) <=> BothSegments
                /\ (Res.stage = 3) => Res.segment_similarity # Null
                /\ (Res.stage = 2) <=> ~BothSegments

\* C6: for a bundle with a unit-norm fingerprint matched against itself, the
\* Stage-1 cosine is 1, the alignment distance is 0, the Stage-2 combined
\* value is 1, the final similarity is 1 and the method is "full".
C6_SelfMatchIsOne ==
    (Returned /\ sameBundle /\ Dot(vector1, vector1) = 100)
        => /\ cosine_sim = One
           /\ Res.method = "full"
           /\ (dtw.aligned = "ok" => dtw.distance = 0 /\ dtw.dtw_sim = One)
           /\ combined_sim = One
           /\ Res.similarity = One

C6_Witness ==
    /\ pc = "tsm_returned"
    /\ sameBundle
    /\ Dot(vector1, vector1) = 100
    /\ dtw.aligned = "ok"
    /\ dtw.max_len = 2
    /\ segments1 # Null
    /\ Len(Val(segments1)) = 2
    /\ Val(segments1)[1] # Val(segments1)[2]
    /\ Res.stage = 3
    /\ Res.similarity = One

\* C7: the matches of a successful response are sorted by similarity_score in
\* descending order, are at most 5, are candidates of the table with their
\* own score, each strictly above 0.4, as many as there are such candidates
\* up to 5, and no omitted candidate scores higher than a returned one; an
\* empty table gives an empty list and a successful response.
Score(i) == Dot(Val(features).feature_vector, reciters[i]) * 300
Qualifying == {i \in 1..Len(reciters) : 10 * Score(i) > 4 * 30000}

C7_Ranking ==
    (pc = "responded" /\ features # Null /\ idx > 0)
        => LET ms == Val(response).matches
               returned == {ms[k].id : k \in 1..Len(ms)}
           IN  /\ Val(response).status = 200
               /\ Len(ms) <= 5
               /\ \A k \in 1..Len(ms) :
                    /\ ms[k].id \in Qualifying
                    /\ ms[k].similarity_score = Score(ms[k].id)
               /\ \A k \in 1..(Len(ms) - 1) :
                    ms[k].similarity_score >= ms[k + 1].similarity_score
               /\ Cardinality(returned) = Len(ms)
               /\ Len(ms) = Min(5, Cardinality(Qualifying))
               /\ \A i \in Qualifying \ returned :
                    \A k \in 1..Len(ms) : Score(i) <= ms[k].similarity_score
               /\ (reciters = <<>> => ms = <<>>)

C7_Witness ==
    /\ pc = "responded"
    /\ response # Null
    /\ Val(response).status = 200
    /\ Len(reciters) = 6
    /\ Len(matches) = 6
    /\ matches[1].similarity_score < matches[6].similarity_score
    /\ Len(Val(response).matches) = 5
    /\ Val(response).matches[1].similarity_score
          > Val(response).matches[5].similarity_score

C7_WitnessEmpty ==
    /\ pc = "responded"
    /\ idx = 1
    /\ reciters = <<>>
    /\ Val(response).status = 200
    /\ Val(response).matches = <<>>

\* C8: a cascade over bundles that carry no sequence_features, with a cosine
\* of at least 0.5, returns the Stage-1 cosine instead of failing.
C8_NoSequenceReturnsCosine ==
    (Passed1 /\ ~seq_present)
        => /\ raised = "none"
           /\ Returned
           /\ Res.similarity = cosine_sim

\* C9: on every exit path of process_audio after the temporary file has been
\* created, the file no longer exists when control leaves the function.
C9_TempFileReleased ==
    (tempCreated /\ pc \notin {"pa_tempfile", "pa_load", "pa_extract", "pa_vector"})
        => ~tempExists

JsonCount(out) == Cardinality({k \in 1..Len(out) : out[k].kind = "json"})

\* C10 as stated: every run ends either with one JSON result on standard
\* output and status 0, or with a JSON error object on standard error and
\* status 1 (the run without --process and --match included).
C10_TwoOutcomes ==
    pc = "exited"
        => \/ /\ exitCode = Some(0)
              /\ JsonCount(stdout) = 1
              /\ stderr = <<>>
           \/ /\ exitCode = Some(1)
              /\ stderr = <<[kind |-> "json", what |-> "error"]>>
              /\ JsonCount(stdout) = 0

\* C10 amended: a run given --process or --match ends either with one JSON
\* result as the last line of standard output and status 0, or, on any
\* failure, with one JSON error object on standard error, no JSON on standard
\* output and status 1; a run given neither prints the help text on standard
\* output, nothing on standard error, and ends with status 1.
C10_ThreeOutcomes ==
    pc = "exited"
        => IF args.process = "none" /\ args.match = "none"
           THEN /\ exitCode = Some(1)
                /\ stdout = <<[kind |-> "text", what |-> "help"]>>
                /\ stderr = <<>>
           ELSE \/ /\ exitCode = Some(0)
                   /\ raised = "none"
                   /\ JsonCount(stdout) = 1
                   /\ stdout[Len(stdout)].kind = "json"
                   /\ stdout[Len(stdout)].what \in {"features", "result"}
                   /\ stderr = <<>>
                \/ /\ exitCode = Some(1)
                   /\ stderr = <<[kind |-> "json", what |-> "error"]>>
                   /\ JsonCount(stdout) = 0
                   /\ features = Null
                   /\ result = Null

C10_Witness ==
    /\ pc = "exited"
    /\ args.process = "none"
    /\ args.match = "given"
    /\ raised = "KeyError"
    /\ exitCode = Some(1)
    /\ stderr = <<[kind |-> "json", what |-> "error"]>>

\* the request lacks a field its handler requires
MissingField ==
    /\ request # Null
    /\ Val(request).json
    /\ \/ ~Val(request).audio
       \/ entry = "new_reciter" /\ ~Val(request).name

\* C11: a register-reciter request without audio data or without reciter
\* name, and a process-recitation request without audio data, is answered with
\* an error response and has created no temporary file, uploaded nothing,
\* extracted no features and neither read nor written the reciters table.
C11_ValidationPrecedesEffects ==
    (entry \in {"new_reciter", "process_recitation"} /\ MissingField)
        => /\ pc = "responded"
           /\ Val(response).status = 400
           /\ Val(response).error \in {"Audio data and reciter name are required",
                                       "No audio data provided"}
           /\ effects = {}
           /\ ~tempCreated
           /\ callerTemp = "none"
           /\ ~storage
           /\ features = Null
           /\ idx = 0
           /\ existing_reciters = <<>>
           /\ tableWrite = Null

C11_Witness ==
    /\ entry = "new_reciter"
    /\ request = Some([json |-> TRUE, audio |-> TRUE, name |-> FALSE])
    /\ pc = "responded"
    /\ Val(response).status = 400
    /\ effects = {}

C11_WitnessRecitation ==
    /\ entry = "process_recitation"
    /\ MissingField
    /\ pc = "responded"
    /\ Val(response).error = "No audio data provided"
    /\ effects = {}

\* C15: for every pair of unit-norm fingerprints, negative cosine included,
\* and every sequence and segment input, the similarity returned by
\* two_stage_matcher lies in [0, 1].
C15_ScoreInUnitRange ==
    (Returned /\ Dot(vector1, vector1) = 100 /\ Dot(vector2, vector2) = 100)
        => /\ 0 <= Res.similarity
           /\ Res.similarity <= 30000

\* C20: every temporary file created by the register-reciter handler and by
\* predict_from_base64 is deleted on every exit path, on success and when the
\* upload, the public-URL lookup or the prediction raises.
C20_CallerTempFileReleased ==
    (\/ entry = "new_reciter" /\ pc = "responded"
     \/ entry = "predictor" /\ pc = "pred_returned")
        => callerTemp # "exists"

In  == Val(input)
Out == Val(output)
Called(f) == entry = f /\ pc = "returned"

\* C12: for a buffer whose energy is zero in every frame,
\* extract_pause_patterns reports a pause count of 1: one long pause whose
\* length is the number of frames.
C12_SilenceIsOnePause ==
    (Called("extract_pause_patterns") /\ \A i \in 1..Len(In) : In[i] = 0)
        => /\ Out.pause_lengths = <<Len(In)>>
           /\ Out.pause_features[1] = 1 * 60

\* the maximal runs of pause frames of the input, as pairs <<first, last>>
PauseFrame(i) == 20 * In[i] < MaxOf(Range(In))
PauseRuns ==
    {r \in (1..Len(In)) \X (1..Len(In)) :
        /\ r[1] <= r[2]
        /\ \A i \in r[1]..r[2] : PauseFrame(i)
        /\ (r[1] = 1 \/ ~PauseFrame(r[1] - 1))
        /\ (r[2] = Len(In) \/ ~PauseFrame(r[2] + 1))}

\* C18: a frame is a pause iff its energy is strictly below 0.05*max(energy);
\* the recorded pause lengths are the lengths of the maximal runs of pause
\* frames, in order, a run that reaches the last frame included, so their sum
\* is the number of pause frames; the output is (run count, mean run length,
\* std of the run lengths or 0 for fewer than 2 runs, longest run), and
\* (0, 0, 0, 0) when no frame is a pause.  The std is the square root of
\* pf[3].sqrt.
C18_PauseRunLengths ==
    Called("extract_pause_patterns")
        => LET pl == Out.pause_lengths
               pf == Out.pause_features
               n  == Len(pl)
               sq == SumSeq([k \in 1..n |-> pl[k] * pl[k]])
           IN  /\ n = Cardinality(PauseRuns)
               /\ \A r \in PauseRuns :
                    pl[1 + Cardinality({q \in PauseRuns : q[1] < r[1]})]
                        = r[2] - r[1] + 1
               /\ SumSeq(pl) = Cardinality({i \in 1..Len(In) : PauseFrame(i)})
               /\ Len(pf) = 4
               /\ pf[1] = 60 * n
               /\ n * pf[2] = 60 * SumSeq(pl)
               /\ n < 2 => pf[3].sqrt = 0
               /\ n >= 2 =>
                    n * n * pf[3].sqrt = 3600 * (n * sq - SumSeq(pl) * SumSeq(pl))
               /\ n > 0 => \E k \in 1..n : /\ pf[4] = 60 * pl[k]
                                           /\ \A j \in 1..n : pl[j] <= pl[k]
               /\ n = 0 => pf = <<0, 0, [sqrt |-> 0], 0>>

C18_Witness ==
    /\ Called("extract_pause_patterns")
    /\ In = <<0, 20, 1, 0>>
    /\ Out.pause_lengths = <<1, 1>>
    /\ Out.pause_features = <<120, 60, [sqrt |-> 0], 60>>

C18_WitnessLastRun ==
    /\ Called("extract_pause_patterns")
    /\ In = <<0, 40, 1, 1>>
    /\ Out.pause_lengths = <<1, 2>>
    /\ Out.pause_features = <<120, 90, [sqrt |-> 900], 120>>

\* the descriptors of the intervals of the input that satisfy Test, in order
DescriptorsOf(Test(_)) ==
    LET kept == SelectSeq(In, Test)
    IN  [k \in 1..Len(kept) |-> [from |-> kept[k][1], to |-> kept[k][2]]]

AtLeastHalfSecond(p) == (p[2] - p[1]) * 2 >= 4
OverHalfSecond(p)    == (p[2] - p[1]) * 2 > 4

PitchFrames == Len(In.pitches[1])

\* the estimate of frame t: the pitch of the first bin of largest magnitude
Estimate(t) ==
    LET b == CHOOSE b \in 1..2 :
                /\ \A c \in 1..2 : In.magnitudes[c][t] <= In.magnitudes[b][t]
                /\ \A c \in 1..(b - 1) : In.magnitudes[c][t] < In.magnitudes[b][t]
    IN  In.pitches[b][t]

\* C17 as stated: extract_pitch_contour returns one value per analysis frame,
\* so for every input of at least one frame the length of the contour is the
\* frame count, also when every frame is unreliable; every value is >= 0 and
\* the contour is never empty.
C17_ContourLengthIsFrameCount ==
    (Called("extract_pitch_contour") /\ PitchFrames >= 1)
        => /\ Len(Out) = PitchFrames
           /\ \A t \in 1..Len(Out) : Out[t] >= 0
           /\ Out # <<>>

\* C17 amended: when at least one frame has a positive estimate, the contour
\* has one value per frame, the estimate where it is positive and zero where
\* it is not, so its length is the frame count; when no frame has a positive
\* estimate (or there is no frame) the contour is the single value [0.0];
\* every value is >= 0 and the contour is never empty.
C17_ContourLengthOrSingleZero ==
    Called("extract_pitch_contour")
        => /\ IF \E t \in 1..PitchFrames : Estimate(t) > 0
              THEN /\ Len(Out) = PitchFrames
                   /\ \A t \in 1..PitchFrames :
                        Out[t] = IF Estimate(t) > 0 THEN Estimate(t) ELSE 0
              ELSE Out = <<0>>
           /\ \A t \in 1..Len(Out) : Out[t] >= 0
           /\ Out # <<>>

C17_Witness ==
    /\ Called("extract_pitch_contour")
    /\ PitchFrames = 3
    /\ In.pitches = <<<<-1, 2, 0>>, <<2, 5, 0>>>>
    /\ Out = <<0, 2, 0>>

C17_WitnessAllUnreliable ==
    /\ Called("extract_pitch_contour")
    /\ PitchFrames = 3
    /\ Out = <<0>>

\* the score of reference segment i against query segment j of the input
RefSegs   == IF Len(In.segments1) >= Len(In.segments2) THEN In.segments1
                                                       ELSE In.segments2
QuerySegs == IF Len(In.segments1) >= Len(In.segments2) THEN In.segments2
                                                       ELSE In.segments1
ScoreOf(i, j) ==
    (Dot(RefSegs[i], QuerySegs[j]) * 30000)
        \div (Norm(RefSegs[i]) * Norm(QuerySegs[j]))

\* C16: with the longer list as reference, each query segment, in index
\* order, is assigned the not-yet-used reference segment of highest score,
\* the lowest index on ties; every query segment is matched to exactly one
\* reference segment, none is assigned twice, and the value returned is the
\* mean of exactly len(query) chosen scores, an entry of -1 included.
C16_GreedyAssignment ==
    (Called("compare_segments") /\ In.segments1 # <<>> /\ In.segments2 # <<>>)
        => LET a == Out.chosen
               n == Len(QuerySegs)
           IN  /\ Len(a) = n
               /\ \A j \in 1..n : a[j] \in 1..Len(RefSegs)
               /\ \A j, k \in 1..n : j # k => a[j] # a[k]
               /\ \A j \in 1..n :
                    \A i \in (1..Len(RefSegs)) \ {a[k] : k \in 1..(j - 1)} :
                        /\ ScoreOf(i, j) <= ScoreOf(a[j], j)
                        /\ ScoreOf(i, j) = ScoreOf(a[j], j) => a[j] <= i
               /\ n * Out.value = SumSeq([j \in 1..n |-> ScoreOf(a[j], j)])

RowMean(row, x) == Len(row) * x = 60 * SumSeq(row)

\* C19: the raw vector has the blocks of widths 20, 20, 12, 20, 20, 1, 1, 3,
\* 1 in that order, 98 entries whatever the number of frames, and its last
\* entry is the mean pause length, the second of the four pause statistics.
C19_LastEntryIsMeanPauseLength ==
    Called("feature_vector")
        => LET v == Out.feature_vector IN
           /\ Len(v) = 98
           /\ RowMean(In.mfcc_row, v[1])
           /\ v[21] * v[21] * Len(In.mfcc_row) * Len(In.mfcc_row)
                = 3600 * (Len(In.mfcc_row)
                              * SumSeq([t \in 1..Len(In.mfcc_row) |->
                                           In.mfcc_row[t] * In.mfcc_row[t]])
                          - SumSeq(In.mfcc_row) * SumSeq(In.mfcc_row))
           /\ RowMean(In.chroma_row, v[41])
           /\ RowMean(In.mel_row, v[53])
           /\ RowMean(In.tempo_row, v[73])
           /\ RowMean(In.pitch_contour, v[93])
           /\ RowMean(In.formant_row, v[95])
           /\ \A i \in (1..98) \ {1, 21, 41, 53, 73, 93, 94, 95, 98} : v[i] = 0
           /\ v[98] = In.pause_patterns[2]

\* C21: compare_segments is symmetric: for all segment lists A and B the
\* value of compare_segments(A, B) equals the value of compare_segments(B, A),
\* lists of the same number of segments included.
C21_Symmetric ==
    Called("compare_segments")
        => Out.value = compare_segments(In.segments2, In.segments1)

\* rows of the table that carry name n
RowsNamed(n) == {i \in DOMAIN reciters_table : reciters_table[i].name = n}

\* what a register-reciter request did to the table, once it has responded
Registered(w) == workers[w].kind = "new_reciter" /\ workers[w].at = "done"

\* C22: after any interleaving of register-reciter requests and runs of the
\* feature-extraction script the table holds at most one row per reciter
\* name; two registrations of the same new name that ran together both
\* succeed, as an insert or an update, and never as two inserts.
C22_OneRecordPerName ==
    /\ \A n \in {"husary", "minshawi"} : Cardinality(RowsNamed(n)) <= 1
    /\ \A v, w \in DOMAIN workers :
         (v # w /\ Registered(v) /\ Registered(w)
              /\ workers[v].log[1].name = "minshawi"
              /\ workers[w].log[1].name = "minshawi")
           => /\ workers[v].log[1].op \in {"insert", "update"}
              /\ workers[w].log[1].op \in {"insert", "update"}
              /\ ~(workers[v].log[1].op = "insert" /\ workers[w].log[1].op = "insert")

\* C23: in every result with method "full" whose alignment produced a value,
\* the field dtw_similarity is the similarity of the temporal alignment,
\* max(0, 1 - distance/(max_len * channel_count)), a number of [0, 1], so
\* that the value combined of Stage 2 is
\* 0.4*cosine_similarity + 0.6*dtw_similarity.
C23_DtwSimilarityField ==
    (Returned /\ Res.method = "full" /\ dtw.aligned = "ok")
        => /\ Res.dtw_similarity = dtw.dtw_sim
           /\ Res.dtw_similarity >= 0
           /\ Res.dtw_similarity <= 30000
           /\ 10 * combined_sim =
                  4 * Res.cosine_similarity + 6 * Res.dtw_similarity

\* C24: a register-reciter request that ends with an error response leaves
\* the external state as it was before the request: no row of the reciters
\* table has been inserted or updated, and no audio object uploaded by the
\* request remains in the storage bucket.
C24_FailedRegistrationLeavesNothing ==
    (entry = "new_reciter" /\ response # Null /\ Val(response).status # 200)
        => /\ tableWrite = <<>>
           /\ storage = FALSE

====
